---- MODULE Spec2Model ----
(***************************************************************************)
(* Model of the Cloudflare Worker in worker/src/index.js: the Eve SSO      *)
(* identity linkage (createAuthURL, handleAuthCallback), the token refresh *)
(* sweep (refreshAuthTokens), deleteAuthUser and the authenticated_users   *)
(* table of worker/schema.sql.                                             *)
(*                                                                         *)
(* Time is counted in ticks of 30 minutes.  Text is a sequence of UTF-16   *)
(* code units; base64 text is a sequence of alphabet indexes 0..63 with 64 *)
(* for '='.  JSON object keys are abbreviated to one code unit.            *)
(***************************************************************************)
EXTENDS Integers, Sequences, FiniteSets, TLC

VARIABLES store, nextRowId, clock, cb, sweeps, resp, issued, nextGrant,
          reminders, nextReminderId

\* the reminders table and its AUTOINCREMENT sequence
reminderVars == <<reminders, nextReminderId>>

vars == <<store, nextRowId, clock, cb, sweeps, resp, issued, nextGrant,
          reminders, nextReminderId>>

(***************************************************************************)
(* Bounds of the model.                                                    *)
(***************************************************************************)
MaxTicks == 1
MaxGrants == 2
MaxIssued == 2
MaxReminders == 2

(***************************************************************************)
(* Absent values (JavaScript undefined / null, SQL NULL), one per type of  *)
(* value: abstract names, text, numbers and tokens.  The result of an      *)
(* operation that can throw is a record with an ok flag.                   *)
(***************************************************************************)
Null == "null"
NullText == <<-1>>
NullNum == -1
NoToken == 0

Ok(v) == [ok |-> TRUE, val |-> v]
Thrown == [ok |-> FALSE, val |-> <<>>]

(***************************************************************************)
(* Time.  Date.now() reads the clock; one tick is 30 minutes.              *)
(***************************************************************************)
MsPerTick == 1800 * 1000
oneHourMs == 3600000
Horizon == oneHourMs \div MsPerTick
StartClock == 9

\* Date.prototype.toISOString: fixed-width decimal text, most significant first.
ToISOString(t) == <<t \div 10, t % 10>>

\* SQLite's comparison of TEXT values (BINARY collation): lexicographic.
RECURSIVE TextLess(_, _)
TextLess(a, b) ==
  IF b = <<>> THEN FALSE
  ELSE IF a = <<>> THEN TRUE
  ELSE IF Head(a) # Head(b) THEN Head(a) < Head(b)
  ELSE TextLess(Tail(a), Tail(b))

TextLeq(a, b) == a = b \/ TextLess(a, b)

(***************************************************************************)
(* btoa / atob.                                                            *)
(***************************************************************************)
Pad == 64

RECURSIVE EncodeBytes(_)
EncodeBytes(s) ==
  IF s = <<>> THEN <<>>
  ELSE IF Len(s) = 1 THEN
    <<s[1] \div 4, (s[1] % 4) * 16, Pad, Pad>>
  ELSE IF Len(s) = 2 THEN
    <<s[1] \div 4, ((s[1] % 4) * 16) + (s[2] \div 16), (s[2] % 16) * 4, Pad>>
  ELSE
    <<s[1] \div 4, ((s[1] % 4) * 16) + (s[2] \div 16),
      ((s[2] % 16) * 4) + (s[3] \div 64), s[3] % 64>>
    \o EncodeBytes(SubSeq(s, 4, Len(s)))

\* btoa throws InvalidCharacterError on a code unit above 0xFF.
Btoa(s) ==
  IF \E i \in 1..Len(s) : s[i] > 255 THEN Thrown ELSE Ok(EncodeBytes(s))

RECURSIVE DecodeQuads(_)
DecodeQuads(t) ==
  IF t = <<>> THEN <<>>
  ELSE
    LET a == t[1]
        b == t[2]
        c == t[3]
        d == t[4]
        rest == SubSeq(t, 5, Len(t))
    IN  IF c = Pad THEN <<(a * 4) + (b \div 16)>>
        ELSE IF d = Pad THEN <<(a * 4) + (b \div 16), ((b % 16) * 16) + (c \div 4)>>
        ELSE <<(a * 4) + (b \div 16), ((b % 16) * 16) + (c \div 4), ((c % 4) * 64) + d>>
             \o DecodeQuads(rest)

\* atob throws on text that is not base64: a length that is no multiple of
\* four, a character outside the alphabet, padding before the end.
Atob(t) ==
  IF Len(t) % 4 # 0 THEN Thrown
  ELSE IF \E i \in 1..Len(t) : t[i] \notin 0..Pad THEN Thrown
  ELSE IF \E i \in 1..Len(t) : t[i] = Pad /\ i < Len(t) - 1 THEN Thrown
  ELSE IF Len(t) > 0 /\ t[Len(t) - 1] = Pad /\ t[Len(t)] # Pad THEN Thrown
  ELSE Ok(DecodeQuads(t))

(***************************************************************************)
(* JSON.stringify / JSON.parse of the state object                         *)
(* { discord_id, discord_username, timestamp }.  The keys are abbreviated  *)
(* to the code units of 'i', 'u' and 't'.                                  *)
(***************************************************************************)
LBRACE == 123
RBRACE == 125
DQUOTE == 34
BACKSLASH == 92
COLON == 58
COMMA == 44
KeyId == 105
KeyUsername == 117
KeyTimestamp == 116
JsonNullText == <<110, 117, 108, 108>>

RECURSIVE Escape(_)
Escape(s) ==
  IF s = <<>> THEN <<>>
  ELSE IF Head(s) \in {DQUOTE, BACKSLASH} THEN <<BACKSLASH, Head(s)>> \o Escape(Tail(s))
  ELSE <<Head(s)>> \o Escape(Tail(s))

Quote(s) == <<DQUOTE>> \o Escape(s) \o <<DQUOTE>>

RECURSIVE Digits(_)
Digits(n) == IF n < 10 THEN <<48 + n>> ELSE Digits(n \div 10) \o <<48 + (n % 10)>>

Member(k, v) == <<DQUOTE, k, DQUOTE, COLON>> \o v

JSONstringify(o) ==
  <<LBRACE>> \o Member(KeyId, Quote(o.discord_id)) \o <<COMMA>>
  \o Member(KeyUsername, Quote(o.discord_username)) \o <<COMMA>>
  \o Member(KeyTimestamp, Digits(o.timestamp)) \o <<RBRACE>>

Scanned(v, n) == [ok |-> TRUE, val |-> v, next |-> n]
ScanFail == [ok |-> FALSE, val |-> <<>>, next |-> 0]

\* the characters of a string literal after its opening quote
RECURSIVE ScanString(_, _, _)
ScanString(s, i, acc) ==
  IF i > Len(s) THEN ScanFail
  ELSE IF s[i] = DQUOTE THEN Scanned(acc, i + 1)
  ELSE IF s[i] = BACKSLASH THEN
    IF i + 1 <= Len(s) /\ s[i + 1] \in {DQUOTE, BACKSLASH}
    THEN ScanString(s, i + 2, Append(acc, s[i + 1]))
    ELSE ScanFail
  ELSE IF s[i] < 32 THEN ScanFail
  ELSE ScanString(s, i + 1, Append(acc, s[i]))

RECURSIVE ScanDigits(_, _, _)
ScanDigits(s, i, acc) ==
  IF i <= Len(s) /\ s[i] \in 48..57 THEN ScanDigits(s, i + 1, Append(acc, s[i]))
  ELSE IF acc = <<>> THEN ScanFail
  ELSE Scanned(acc, i)

ScanValue(s, i) ==
  IF i > Len(s) THEN ScanFail
  ELSE IF s[i] = DQUOTE THEN ScanString(s, i + 1, <<>>)
  ELSE ScanDigits(s, i, <<>>)

\* the members of an object after its opening brace: a sequence of
\* <<key, value>> pairs, a later member overriding an earlier one on lookup
RECURSIVE ScanMembers(_, _, _)
ScanMembers(s, i, acc) ==
  IF i > Len(s) \/ s[i] # DQUOTE THEN Thrown
  ELSE
    LET k == ScanString(s, i + 1, <<>>)
    IN  IF ~k.ok \/ k.next > Len(s) \/ s[k.next] # COLON THEN Thrown
        ELSE
          LET v == ScanValue(s, k.next + 1)
          IN  IF ~v.ok \/ v.next > Len(s) THEN Thrown
              ELSE IF s[v.next] = COMMA
                THEN ScanMembers(s, v.next + 1, Append(acc, <<k.val, v.val>>))
              ELSE IF s[v.next] = RBRACE /\ v.next = Len(s)
                THEN Ok(Append(acc, <<k.val, v.val>>))
              ELSE Thrown

\* JSON.parse: the member list of an object, or the marker of null
JSONparse(s) ==
  IF s = JsonNullText THEN Ok(<<<<NullText, NullText>>>>)
  ELSE IF Len(s) < 2 \/ s[1] # LBRACE THEN Thrown
  ELSE IF s = <<LBRACE, RBRACE>> THEN Ok(<<>>)
  ELSE ScanMembers(s, 2, <<>>)

IsNullObject(o) == o = <<<<NullText, NullText>>>>

\* o[k]: the value of the last member named k, undefined when there is none
Get(o, k) ==
  LET hits == {j \in 1..Len(o) : o[j][1] = <<k>>}
  IN  IF hits = {} THEN NullText
      ELSE o[CHOOSE j \in hits : \A h \in hits : h <= j][2]

(***************************************************************************)
(* The inputs: community identities, display labels, and the answers of    *)
(* the identity provider and of ESI.                                       *)
(***************************************************************************)
DiscordIds == {<<49>>, <<50>>}
Usernames == {<<65>>}
\* labels offered to createAuthURL: plain, one needing a JSON escape, one
\* outside Latin-1
LoginUsernames == {<<65>>, <<34>>, <<8364>>}
\* lifetimes in ticks: below one tick (the provider's 20 minutes) and beyond
\* the horizon
ExpiresIn == {0, 3}
Chars == {"char1", "char2"}
Corps == {"corpA", "corpB"}
CharName(c) == IF c = "char1" THEN "Name One" ELSE "Name Two"
CorpName(c) == IF c = "corpA" THEN "Corp A" ELSE "Corp B"
CorpTicker(c) == IF c = "corpA" THEN "CRPA" ELSE "CRPB"
AllianceOf(c) == IF c = "corpA" THEN Null ELSE "ally1"
AllianceName(a) == "Alliance One"
AllianceTicker(a) == "ALLY"

\* an answer of a fetch: the call throws (network error, body that is no
\* JSON), or yields a body without the expected fields, or the data
FetchOutcomes == {"throw", "error", "ok"}

\* bodies of the token endpoint: tokens.access_token, tokens.refresh_token,
\* tokens.expires_in, each possibly missing
\* (1 stands for a token the provider issues on this grant)
FullBodies ==
  {[access_token |-> 1, refresh_token |-> 1, expires_in |-> e] : e \in ExpiresIn}
PartialBodies ==
  {[access_token |-> 1, refresh_token |-> NoToken, expires_in |-> Horizon],
   [access_token |-> 1, refresh_token |-> 1, expires_in |-> NullNum]}
TokenBodies == FullBodies \cup PartialBodies

\* the tokens of a body, named after the grant that issues them
Granted(body, grant) ==
  [body EXCEPT !.access_token = IF @ = NoToken THEN NoToken ELSE grant,
               !.refresh_token = IF @ = NoToken THEN NoToken ELSE grant]

EmptyTokens == [access_token |-> NoToken, refresh_token |-> NoToken, expires_in |-> NullNum]

(***************************************************************************)
(* The state token.                                                        *)
(***************************************************************************)
\* createAuthURL: btoa(JSON.stringify({ discord_id, discord_username, timestamp }))
EncodeState(discord_id, discord_username, timestamp) ==
  Btoa(JSONstringify([discord_id |-> discord_id,
                      discord_username |-> discord_username,
                      timestamp |-> timestamp]))

\* (variant: a state that cannot be decoded is taken as an empty object)
DecodeStateLenient(state) ==
  LET bin == Atob(state)
      obj == IF bin.ok THEN JSONparse(bin.val) ELSE Thrown
  IN  IF ~obj.ok \/ IsNullObject(obj.val)
      THEN Ok([discord_id |-> NullText, discord_username |-> NullText])
      ELSE Ok([discord_id |-> Get(obj.val, KeyId),
               discord_username |-> Get(obj.val, KeyUsername)])

\* handleAuthCallback: const { discord_id, discord_username } = JSON.parse(atob(state))
DecodeState(state) ==
  LET bin == Atob(state)
      obj == IF bin.ok THEN JSONparse(bin.val) ELSE Thrown
  IN  IF ~obj.ok \/ IsNullObject(obj.val) THEN Thrown
      ELSE Ok([discord_id |-> Get(obj.val, KeyId),
               discord_username |-> Get(obj.val, KeyUsername)])

\* state parameters a caller can put into the callback URL without asking
\* createAuthURL: well-formed tokens for any identity, text that is not
\* base64, base64 of text that is not JSON and of null, and base64 of an
\* object without members
ForgedStates ==
  {EncodeState(d, u, StartClock).val : d \in DiscordIds, u \in Usernames}
UndecodableStates ==
  {<<99>>, <<1, 2, 3>>, EncodeBytes(<<120>>), EncodeBytes(JsonNullText)}
EmptyObjectState == EncodeBytes(<<LBRACE, RBRACE>>)

\* the state parameters of the callback requests: missing, without
\* members, well formed for one identity, undecodable
CallbackStates ==
  {NullText, EmptyObjectState} \cup UndecodableStates
  \cup {EncodeState(<<49>>, u, StartClock).val : u \in Usernames}

(***************************************************************************)
(* The table authenticated_users: a set of rows.                           *)
(***************************************************************************)
RowOf(st, discord_id) == {r \in st : r.discord_id = discord_id}

\* the NOT NULL columns of the table; binding undefined makes D1 throw too
NotNullOk(v) ==
  /\ v.discord_id # NullText
  /\ v.discord_username # NullText
  /\ v.eve_character_id # Null
  /\ v.eve_character_name # Null
  /\ v.eve_corporation_id # Null
  /\ v.eve_corporation_name # Null
  /\ v.eve_corporation_ticker # Null
  /\ v.access_token # NoToken
  /\ v.refresh_token # NoToken
  /\ v.token_expires_at # NullText
  /\ v.last_updated # NullText

\* (variant: created_at bound to now without the COALESCE)
CreatedAtNow(st, discord_id, now) == now

\* COALESCE((SELECT created_at FROM authenticated_users WHERE discord_id = ?), ?)
CoalesceCreatedAt(st, discord_id, now) ==
  IF RowOf(st, discord_id) = {} THEN now
  ELSE (CHOOSE r \in RowOf(st, discord_id) : TRUE).created_at

\* (variant: a plain INSERT into a table without the UNIQUE constraint)
InsertKeepingConflicts(st, id, v) ==
  st \cup {[v EXCEPT !.id = id,
                     !.created_at = CoalesceCreatedAt(st, v.discord_id, v.created_at)]}

\* (variant: INSERT ... ON CONFLICT(discord_id) DO UPDATE of the token
\* columns only)
InsertOrUpdateTokens(st, id, v) ==
  IF RowOf(st, v.discord_id) = {} THEN st \cup {[v EXCEPT !.id = id]}
  ELSE {IF r.discord_id = v.discord_id
        THEN [r EXCEPT !.access_token = v.access_token,
                       !.refresh_token = v.refresh_token,
                       !.token_expires_at = v.token_expires_at,
                       !.last_updated = v.last_updated]
        ELSE r : r \in st}

\* INSERT OR REPLACE: the rows that conflict on the UNIQUE discord_id are
\* deleted, then the new row is inserted under a fresh AUTOINCREMENT id
InsertOrReplace(st, id, v) ==
  (st \ RowOf(st, v.discord_id))
  \cup {[v EXCEPT !.id = id,
                  !.created_at = CoalesceCreatedAt(st, v.discord_id, v.created_at)]}

\* (variant: the UPDATE also sets the character columns, from bind values
\* the loop does not have)
UpdateRowWithCharacter(r, u) ==
  [r EXCEPT !.eve_character_id = u.eve_character_id,
            !.eve_character_name = u.eve_character_name,
            !.eve_corporation_id = u.eve_corporation_id,
            !.eve_corporation_name = u.eve_corporation_name,
            !.eve_corporation_ticker = u.eve_corporation_ticker,
            !.eve_alliance_id = u.eve_alliance_id,
            !.eve_alliance_name = u.eve_alliance_name,
            !.eve_alliance_ticker = u.eve_alliance_ticker,
            !.access_token = u.access_token,
            !.refresh_token = u.refresh_token,
            !.token_expires_at = u.token_expires_at,
            !.last_updated = u.last_updated]

\* UPDATE authenticated_users SET ... WHERE discord_id = ?
UpdateRow(r, u) ==
  [r EXCEPT !.eve_corporation_id = u.eve_corporation_id,
            !.eve_corporation_name = u.eve_corporation_name,
            !.eve_corporation_ticker = u.eve_corporation_ticker,
            !.eve_alliance_id = u.eve_alliance_id,
            !.eve_alliance_name = u.eve_alliance_name,
            !.eve_alliance_ticker = u.eve_alliance_ticker,
            !.access_token = u.access_token,
            !.refresh_token = u.refresh_token,
            !.token_expires_at = u.token_expires_at,
            !.last_updated = u.last_updated]

\* (variant: an upsert, which inserts the bind values when no row matches)
UpdateOrInsert(st, discord_id, u) ==
  IF RowOf(st, discord_id) = {} THEN st \cup {[u EXCEPT !.discord_id = discord_id]}
  ELSE {IF r.discord_id = discord_id THEN UpdateRow(r, u) ELSE r : r \in st}

\* the rows the WHERE clause matches are updated, the others stay
UpdateWhere(st, discord_id, u) ==
  {IF r.discord_id = discord_id THEN UpdateRow(r, u) ELSE r : r \in st}

\* (variant: WHERE token_expires_at < ?)
SelectExpiringStrict(st, bound) == {r \in st : TextLess(r.token_expires_at, bound)}

\* SELECT * FROM authenticated_users WHERE token_expires_at <= ?
SelectExpiring(st, bound) == {r \in st : TextLeq(r.token_expires_at, bound)}

\* DELETE FROM authenticated_users WHERE discord_id = ?
\* (variant: the DELETE without its WHERE clause)
DeleteEvery(st, discord_id) == {}

DeleteWhere(st, discord_id) == st \ RowOf(st, discord_id)

\* the orders in which a SELECT without ORDER BY can return a set of rows
Orderings(rows) ==
  {q \in [1..Cardinality(rows) -> rows] : \A i, j \in DOMAIN q : i # j => q[i] # q[j]}

(***************************************************************************)
(* Affiliation: the character, corporation and alliance fetches.           *)
(***************************************************************************)
AffThrown ==
  [thrown |-> TRUE, corporation_id |-> Null, name |-> Null, ticker |-> Null,
   alliance_id |-> Null, alliance_name |-> Null, alliance_ticker |-> Null]

\* (variant: the alliance is never fetched)
AffiliationWithoutAlliance(character_id, charOut, corp, corpOut, allyOut) ==
  IF charOut = "throw" \/ corpOut = "throw" THEN AffThrown
  ELSE
    LET found == charOut = "ok" /\ character_id # Null /\ corpOut = "ok"
    IN  [thrown |-> FALSE,
         corporation_id |-> IF found THEN corp ELSE Null,
         name |-> IF found THEN CorpName(corp) ELSE Null,
         ticker |-> IF found THEN CorpTicker(corp) ELSE Null,
         alliance_id |-> IF found THEN AllianceOf(corp) ELSE Null,
         alliance_name |-> Null,
         alliance_ticker |-> Null]

\* corpData and allianceData of the bind lists; character_id is the id put
\* into the character URL, corp the corporation ESI reports for it
Affiliation(character_id, charOut, corp, corpOut, allyOut) ==
  IF charOut = "throw" THEN AffThrown
  ELSE
    LET corporation_id == IF charOut = "ok" /\ character_id # Null THEN corp ELSE Null
    IN  IF corpOut = "throw" THEN AffThrown
        ELSE
          LET found == corpOut = "ok" /\ corporation_id # Null
              alliance_id == IF found THEN AllianceOf(corporation_id) ELSE Null
              fetched == alliance_id # Null /\ allyOut = "ok"
          IN  IF alliance_id # Null /\ allyOut = "throw" THEN AffThrown
              ELSE [thrown |-> FALSE,
                    corporation_id |-> IF found THEN corporation_id ELSE Null,
                    name |-> IF found THEN CorpName(corporation_id) ELSE Null,
                    ticker |-> IF found THEN CorpTicker(corporation_id) ELSE Null,
                    alliance_id |-> alliance_id,
                    alliance_name |-> IF fetched THEN AllianceName(alliance_id) ELSE Null,
                    alliance_ticker |-> IF fetched THEN AllianceTicker(alliance_id) ELSE Null]

\* the affiliations the three fetches can yield for a character id
AffiliationsOf(character_id, e) ==
  {Affiliation(character_id, charOut, corp, corpOut, allyOut) :
     charOut \in e.outcomes, corp \in e.corps,
     corpOut \in e.outcomes, allyOut \in e.outcomes}

(***************************************************************************)
(* fetch: the API key check in front of every route.                       *)
(***************************************************************************)
API_KEY == "key"
ApiKeys == {API_KEY, "wrong", Null}

\* (variant: only the presence of the header is checked)
UnauthorizedIfAbsent(apiKey) == apiKey = Null

\* !apiKey || apiKey !== env.API_KEY
Unauthorized(apiKey) == apiKey = Null \/ apiKey # API_KEY

(***************************************************************************)
(* The requests in flight.  A handler runs from one await to the next in   *)
(* one step; the awaits of the provider and of ESI, which touch nothing of *)
(* the worker, are taken together with the code that follows them, so a    *)
(* handler is cut at the statements it sends to the database.  resp is the *)
(* response sent by the last step.                                         *)
(*                                                                         *)
(* The environment e of a specification names the callback and sweep slots *)
(* that can be in flight together, the game accounts and corporations that *)
(* exist, the outcomes of a fetch, the bodies of the token endpoint and    *)
(* the state parameters of the callback requests.                          *)
(***************************************************************************)
CB == {1, 2}
SW == {1, 2}

EmptyValues ==
  [id |-> 0, discord_id |-> NullText, discord_username |-> NullText,
   eve_character_id |-> Null, eve_character_name |-> Null,
   eve_corporation_id |-> Null, eve_corporation_name |-> Null,
   eve_corporation_ticker |-> Null, eve_alliance_id |-> Null,
   eve_alliance_name |-> Null, eve_alliance_ticker |-> Null,
   access_token |-> NoToken, refresh_token |-> NoToken,
   token_expires_at |-> NullText, last_updated |-> NullText,
   created_at |-> NullText]

IdleCallback ==
  [pc |-> "idle",
   req |-> [keyMatches |-> TRUE, code |-> Null, state |-> NullText, exchanged |-> FALSE],
   v |-> EmptyValues]

IdleSweep ==
  [pc |-> "idle", now |-> NullText, results |-> <<>>, idx |-> 0,
   u |-> EmptyValues, refreshed |-> <<>>, failed |-> <<>>]

\* a response: the handler that sent it, the status, the error message or
\* "none", the two lists of the refresh response and the rows a read route
\* returns; whether the X-API-Key header of its request was the configured
\* key; with the response of a callback the code and state parameters of
\* its request and whether the request sent a token exchange to the
\* provider
Response(handler, status, error) ==
  [handler |-> handler, status |-> status, error |-> error,
   refreshed |-> <<>>, failed |-> <<>>, users |-> {}, rows |-> <<>>,
   deleted |-> 0,
   keyMatches |-> TRUE,
   code |-> Null, state |-> NullText, exchanged |-> FALSE]

\* the response to a request that carried apiKey in its X-API-Key header
Answer(r, apiKey) == [r EXCEPT !.keyMatches = (apiKey = API_KEY)]

NoResponse == Response("none", 0, "none")

Init ==
  /\ store = {}
  /\ nextRowId = 1
  /\ clock = StartClock
  /\ cb = [p \in CB |-> IdleCallback]
  /\ sweeps = [s \in SW |-> IdleSweep]
  /\ resp = NoResponse
  /\ issued = {}
  /\ nextGrant = 1
  /\ reminders = {}
  /\ nextReminderId = 1

\* time passes
Tick ==
  /\ clock < StartClock + MaxTicks
  /\ clock' = clock + 1
  /\ resp' = NoResponse
  /\ UNCHANGED <<store, nextRowId, cb, sweeps, issued, nextGrant, reminderVars>>

\* OPTIONS on any route: the CORS preflight is answered before the API key
\* is looked at
Preflight ==
  /\ \E apiKey \in ApiKeys : resp' = Answer(Response("preflight", 200, "none"), apiKey)
  /\ UNCHANGED <<store, nextRowId, clock, cb, sweeps, issued, nextGrant,
                 reminderVars>>

(***************************************************************************)
(* createAuthURL                                                           *)
(***************************************************************************)
CreateAuthURL(apiKey, discord_id, discord_username) ==
  /\ Cardinality(issued) < MaxIssued
  /\ UNCHANGED <<store, nextRowId, clock, cb, sweeps, nextGrant, reminderVars>>
  /\ IF Unauthorized(apiKey) THEN
       /\ resp' = Answer(Response("login", 401, "Unauthorized"), apiKey)
       /\ UNCHANGED issued
     ELSE IF discord_id = NullText \/ discord_username = NullText THEN
       /\ resp' = Answer(Response("login", 400, "Missing discord_id or discord_username"), apiKey)
       /\ UNCHANGED issued
     ELSE
       LET state == EncodeState(discord_id, discord_username, clock)
       IN  IF ~state.ok THEN
             /\ resp' = Answer(Response("login", 500, "btoa"), apiKey)
             /\ UNCHANGED issued
           ELSE
             \* auth_url carries the state token
             /\ resp' = Answer([Response("login", 200, "none") EXCEPT
                                 !.state = state.val], apiKey)
             /\ issued' = issued \cup {state.val}

(***************************************************************************)
(* handleAuthCallback                                                      *)
(***************************************************************************)
\* the values of the bind list of the INSERT OR REPLACE
BindValues(decoded, tokens, CharacterID, aff, now) ==
  [id |-> 0,
   discord_id |-> decoded.discord_id,
   discord_username |-> decoded.discord_username,
   eve_character_id |-> CharacterID,
   eve_character_name |-> IF CharacterID = Null THEN Null ELSE CharName(CharacterID),
   eve_corporation_id |-> aff.corporation_id,
   eve_corporation_name |-> aff.name,
   eve_corporation_ticker |-> aff.ticker,
   eve_alliance_id |-> aff.alliance_id,
   eve_alliance_name |-> aff.alliance_name,
   eve_alliance_ticker |-> aff.alliance_ticker,
   access_token |-> tokens.access_token,
   refresh_token |-> tokens.refresh_token,
   token_expires_at |->
     IF tokens.expires_in = NullNum THEN NullText
     ELSE ToISOString(now + tokens.expires_in),
   last_updated |-> ToISOString(now),
   created_at |-> ToISOString(now)]

\* the callback ends with a response
CallbackEnds(p, req, status, error) ==
  /\ cb' = [cb EXCEPT ![p] = IdleCallback]
  /\ resp' = [Response("callback", status, error) EXCEPT
                !.keyMatches = req.keyMatches,
                !.code = req.code, !.state = req.state, !.exchanged = req.exchanged]

Request(apiKey, code, state, exchanged) ==
  [keyMatches |-> apiKey = API_KEY, code |-> code, state |-> state,
   exchanged |-> exchanged]

\* (variant: the failed exchange is not thrown and the handler goes on to
\* the INSERT OR REPLACE with the tokens it did not get)
ExchangeFailedGoesOn(p, req) ==
  /\ cb' = [cb EXCEPT ![p] =
              [pc |-> "store", req |-> req,
               v |-> [EmptyValues EXCEPT
                        !.discord_id = DecodeState(req.state).val.discord_id,
                        !.discord_username = DecodeState(req.state).val.discord_username]]]
  /\ resp' = NoResponse
  /\ UNCHANGED nextGrant

\* the token exchange fails: the fetch or tokenResponse.json() throws, or
\* tokens.access_token is missing and the handler throws; the catch answers
ExchangeFailed(p, req) ==
  /\ CallbackEnds(p, req, 500, "exchange")
  /\ UNCHANGED nextGrant

\* lines 296-357 up to the bind: verify, character, corporation and
\* alliance, then expiresAt, now and the bind list
CallbackResolve(p, e, req, decoded, tokens) ==
  \/ /\ CallbackEnds(p, req, 500, "verify")
     /\ UNCHANGED nextGrant
  \/ \E CharacterID \in e.chars \cup (IF "error" \in e.outcomes THEN {Null} ELSE {}) :
     \E aff \in AffiliationsOf(CharacterID, e) :
       LET v == BindValues(decoded, tokens, CharacterID, aff, clock)
       IN  IF aff.thrown THEN
             CallbackEnds(p, req, 500, "affiliation") /\ UNCHANGED nextGrant
           ELSE IF tokens.expires_in = NullNum THEN
             CallbackEnds(p, req, 500, "expiry") /\ UNCHANGED nextGrant
           ELSE IF ~NotNullOk(v) THEN
             CallbackEnds(p, req, 500, "bind") /\ UNCHANGED nextGrant
           ELSE
             /\ cb' = [cb EXCEPT ![p] = [pc |-> "store", req |-> req, v |-> v]]
             /\ resp' = NoResponse
             /\ nextGrant' = nextGrant + 1

\* GET /auth/callback?code=..&state=.. with an X-API-Key header: the API
\* key, the parameters, the state, the token exchange, then CallbackResolve
CallbackRequest(p, e, apiKey, code, state) ==
  IF Unauthorized(apiKey) THEN
    /\ CallbackEnds(p, Request(apiKey, code, state, FALSE), 401, "Unauthorized")
    /\ UNCHANGED nextGrant
  ELSE IF code = Null \/ state = NullText THEN
    /\ CallbackEnds(p, Request(apiKey, code, state, FALSE), 400, "Authorization failed")
    /\ UNCHANGED nextGrant
  ELSE
    LET decoded == DecodeState(state)
    IN  IF ~decoded.ok THEN
          /\ CallbackEnds(p, Request(apiKey, code, state, FALSE), 500, "state")
          /\ UNCHANGED nextGrant
        ELSE
          \/ ExchangeFailed(p, Request(apiKey, code, state, TRUE))
          \/ /\ nextGrant <= e.grants
             /\ \E body \in e.bodies :
                  CallbackResolve(p, e, Request(apiKey, code, state, TRUE),
                                  decoded.val, Granted(body, nextGrant))

\* the request arrives and runs up to the INSERT OR REPLACE it sends
CallbackBegin(p, e) ==
  /\ p \in e.callbacks
  /\ cb[p].pc = "idle"
  /\ \A q \in e.callbacks : q < p => cb[q].pc # "idle"
  /\ UNCHANGED <<store, nextRowId, clock, sweeps, issued, reminderVars>>
  /\ \E apiKey \in e.keys, code \in e.codes, state \in e.states \cup issued :
       CallbackRequest(p, e, apiKey, code, state)

\* the INSERT OR REPLACE statement runs
CallbackStore(p) ==
  /\ cb[p].pc = "store"
  /\ UNCHANGED <<clock, sweeps, issued, nextGrant, reminderVars>>
  /\ \/ /\ store' = InsertOrReplace(store, nextRowId, cb[p].v)
        /\ nextRowId' = nextRowId + 1
        /\ CallbackEnds(p, cb[p].req, 200, "none")
     \/ /\ CallbackEnds(p, cb[p].req, 500, "store")
        /\ UNCHANGED <<store, nextRowId>>

(***************************************************************************)
(* refreshAuthTokens                                                       *)
(***************************************************************************)
\* the columns of a selected row that the loop reads
UserOf(r) ==
  [discord_id |-> r.discord_id, eve_character_id |-> r.eve_character_id,
   eve_character_name |-> r.eve_character_name, refresh_token |-> r.refresh_token]

User(s) == sweeps[s].results[sweeps[s].idx]

\* the next record of the loop, or the response after the last one
Advance(s, sw) ==
  IF sw.idx + 1 > Len(sw.results) THEN
    /\ sweeps' = [sweeps EXCEPT ![s] = IdleSweep]
    /\ resp' = [Response("refresh", 200, "none") EXCEPT
                  !.refreshed = sw.refreshed, !.failed = sw.failed]
  ELSE
    /\ sweeps' = [sweeps EXCEPT ![s] =
                    [sw EXCEPT !.idx = @ + 1, !.pc = "exchange", !.u = EmptyValues]]
    /\ resp' = NoResponse

\* (variant: the try/catch around the loop instead of inside it)
FailedAborts(s, error) ==
  /\ sweeps' = [sweeps EXCEPT ![s] = IdleSweep]
  /\ resp' = [Response("refresh", 200, "none") EXCEPT
                !.refreshed = sweeps[s].refreshed,
                !.failed = Append(sweeps[s].failed,
                                  [discord_id |-> User(s).discord_id, error |-> error])]

\* catch (error) { failed.push(...) }
Failed(s, error) ==
  Advance(s, [sweeps[s] EXCEPT
                !.failed = Append(@, [discord_id |-> User(s).discord_id, error |-> error])])

\* the values of the bind list of the UPDATE
UpdateValues(sw, tokens, aff, now) ==
  [EmptyValues EXCEPT
     !.eve_corporation_id = aff.corporation_id,
     !.eve_corporation_name = aff.name,
     !.eve_corporation_ticker = aff.ticker,
     !.eve_alliance_id = aff.alliance_id,
     !.eve_alliance_name = aff.alliance_name,
     !.eve_alliance_ticker = aff.alliance_ticker,
     !.access_token = tokens.access_token,
     !.refresh_token = tokens.refresh_token,
     !.token_expires_at =
       IF tokens.expires_in = NullNum THEN NullText
       ELSE ToISOString(now + tokens.expires_in),
     !.last_updated = sw.now]

\* (variant: a missing refresh token is bound as an empty value)
UpdateBindOkAccessOnly(u) ==
  /\ u.eve_corporation_id # Null
  /\ u.eve_corporation_name # Null
  /\ u.eve_corporation_ticker # Null
  /\ u.access_token # NoToken

\* the values bound to the NOT NULL columns the UPDATE sets
UpdateBindOk(u) ==
  /\ u.eve_corporation_id # Null
  /\ u.eve_corporation_name # Null
  /\ u.eve_corporation_ticker # Null
  /\ u.access_token # NoToken
  /\ u.refresh_token # NoToken

\* the request arrives: API key, now, the horizon query
SweepBegin(s, e) ==
  /\ s \in e.sweeps
  /\ sweeps[s].pc = "idle"
  /\ \A q \in e.sweeps : q < s => sweeps[q].pc # "idle"
  /\ UNCHANGED <<store, nextRowId, clock, cb, issued, nextGrant, reminderVars>>
  /\ \E apiKey \in e.keys :
       IF Unauthorized(apiKey) THEN
         /\ resp' = Answer(Response("refresh", 401, "Unauthorized"), apiKey)
         /\ UNCHANGED sweeps
       ELSE
         LET now == ToISOString(clock)
             oneHourFromNow == ToISOString(clock + Horizon)
             selected == SelectExpiring(store, oneHourFromNow)
         IN  IF selected = {} THEN
               /\ resp' = Answer(Response("refresh", 200, "none"), apiKey)
               /\ UNCHANGED sweeps
             ELSE
               /\ \E rows \in Orderings(selected) :
                    sweeps' = [sweeps EXCEPT ![s] =
                      [IdleSweep EXCEPT
                         !.pc = "exchange", !.now = now, !.idx = 1,
                         !.results = [i \in DOMAIN rows |-> UserOf(rows[i])]]]
               /\ resp' = NoResponse

\* lines 458-506 up to the bind: character, corporation and alliance, then
\* expiresAt and the bind list
SweepResolve(s, e, tokens) ==
  \E aff \in AffiliationsOf(User(s).eve_character_id, e) :
    LET u == UpdateValues(sweeps[s], tokens, aff, clock)
    IN  IF aff.thrown THEN
          Failed(s, "affiliation") /\ UNCHANGED nextGrant
        ELSE IF tokens.expires_in = NullNum THEN
          Failed(s, "expiry") /\ UNCHANGED nextGrant
        ELSE IF ~UpdateBindOk(u) THEN
          Failed(s, "bind") /\ UNCHANGED nextGrant
        ELSE
          /\ sweeps' = [sweeps EXCEPT ![s] = [@ EXCEPT !.pc = "update", !.u = u]]
          /\ resp' = NoResponse
          /\ nextGrant' = nextGrant + 1

\* the loop body for the current record up to the UPDATE it sends: the
\* refresh-token exchange, then SweepResolve
SweepExchange(s, e) ==
  /\ sweeps[s].pc = "exchange"
  /\ UNCHANGED <<store, nextRowId, clock, cb, issued, reminderVars>>
  /\ \/ /\ Failed(s, "error")
        /\ UNCHANGED nextGrant
     \/ /\ Failed(s, "Failed to refresh token")
        /\ UNCHANGED nextGrant
     \/ /\ nextGrant <= e.grants
        /\ \E body \in e.bodies : SweepResolve(s, e, Granted(body, nextGrant))

\* (variant: the token columns are written by a statement of their own,
\* which took effect before the statement that threw)
RunUpdateTorn(st, discord_id, u, dbOk) ==
  IF dbOk THEN UpdateWhere(st, discord_id, u)
  ELSE {IF r.discord_id = discord_id
        THEN [r EXCEPT !.access_token = u.access_token,
                       !.refresh_token = u.refresh_token]
        ELSE r : r \in st}

\* the table after the UPDATE statement ran: the statement takes effect or
\* it throws and leaves the table as it was
RunUpdate(st, discord_id, u, dbOk) ==
  IF dbOk THEN UpdateWhere(st, discord_id, u) ELSE st

\* the UPDATE statement runs
SweepUpdate(s) ==
  /\ sweeps[s].pc = "update"
  /\ UNCHANGED <<nextRowId, clock, cb, issued, nextGrant, reminderVars>>
  /\ \/ /\ store' = RunUpdate(store, User(s).discord_id, sweeps[s].u, TRUE)
        /\ Advance(s, [sweeps[s] EXCEPT !.refreshed =
                         Append(@, [discord_id |-> User(s).discord_id,
                                    character_name |-> User(s).eve_character_name,
                                    corporation |-> sweeps[s].u.eve_corporation_ticker,
                                    alliance |-> sweeps[s].u.eve_alliance_ticker])])
     \/ /\ store' = RunUpdate(store, User(s).discord_id, sweeps[s].u, FALSE)
        /\ Failed(s, "error")

(***************************************************************************)
(* A call that never answers.  The fetches carry no signal and no timeout, *)
(* so the await of a call the other side never answers does not return:    *)
(* the handler stays where it is, "hung", and no step takes it on.         *)
(***************************************************************************)
\* the token exchange or a later fetch of an authorized callback with code
\* and decodable state never answers
CallbackHang(p, e) ==
  /\ p \in e.callbacks
  /\ cb[p].pc = "idle"
  /\ \E code \in e.codes \ {Null}, state \in (e.states \cup issued) \ {NullText} :
       /\ DecodeState(state).ok
       /\ cb' = [cb EXCEPT ![p] =
                   [IdleCallback EXCEPT
                      !.pc = "hung", !.req = Request(API_KEY, code, state, TRUE)]]
  /\ resp' = NoResponse
  /\ UNCHANGED <<store, nextRowId, clock, sweeps, issued, nextGrant,
                 reminderVars>>

\* the token exchange or a later fetch for the current record of a sweep
\* never answers
SweepHang(s) ==
  /\ sweeps[s].pc = "exchange"
  /\ sweeps' = [sweeps EXCEPT ![s] = [@ EXCEPT !.pc = "hung"]]
  /\ resp' = NoResponse
  /\ UNCHANGED <<store, nextRowId, clock, cb, issued, nextGrant, reminderVars>>

(***************************************************************************)
(* getAuthUser                                                             *)
(***************************************************************************)
GetAuthUser(apiKey, discordId) ==
  /\ UNCHANGED <<store, nextRowId, clock, cb, sweeps, issued, nextGrant,
                 reminderVars>>
  /\ IF Unauthorized(apiKey) THEN
       resp' = Answer(Response("user", 401, "Unauthorized"), apiKey)
     ELSE
       resp' = Answer([Response("user", 200, "none") EXCEPT
                         !.users = RowOf(store, discordId)], apiKey)

(***************************************************************************)
(* deleteAuthUser                                                          *)
(***************************************************************************)
DeleteAuthUser(apiKey, discordId) ==
  /\ UNCHANGED <<nextRowId, clock, cb, sweeps, issued, nextGrant, reminderVars>>
  /\ IF Unauthorized(apiKey) THEN
       /\ resp' = Answer(Response("delete", 401, "Unauthorized"), apiKey)
       /\ UNCHANGED store
     ELSE
       /\ store' = DeleteWhere(store, discordId)
       /\ resp' = Answer(Response("delete", 200, "none"), apiKey)

(***************************************************************************)
(* The specifications.                                                     *)
(***************************************************************************)
CallbackSteps(e) == \E p \in CB : CallbackBegin(p, e) \/ CallbackStore(p)

SweepSteps(e) == \E s \in SW : SweepBegin(s, e) \/ SweepExchange(s, e) \/ SweepUpdate(s)

DeleteSteps(e) ==
  \E apiKey \in e.keys, d \in DiscordIds : DeleteAuthUser(apiKey, d)

(***************************************************************************)
(* Reminders: createReminder, deleteReminder, cleanupOldReminders.         *)
(***************************************************************************)
CleanupDays == 45
TicksPerDay == (24 * oneHourMs) \div MsPerTick
\* cutoffDate.setDate(cutoffDate.getDate() - 45), in ticks
CleanupAge == CleanupDays * TicksPerDay

\* request bodies of createReminder: a complete one and one without message
ReminderBodies ==
  {[guild_id |-> 1, channel_id |-> 1, user_id |-> 1,
    reminder_time |-> ToISOString(StartClock), message |-> m] :
     m \in {"text", Null}}

MissingFields(data) ==
  \/ data.guild_id = NullNum \/ data.channel_id = NullNum
  \/ data.user_id = NullNum
  \/ data.reminder_time = NullText \/ data.message = Null

CreateReminder(apiKey, data) ==
  /\ nextReminderId <= MaxReminders
  /\ UNCHANGED <<store, nextRowId, clock, cb, sweeps, issued, nextGrant>>
  /\ IF Unauthorized(apiKey) THEN
       /\ resp' = Answer(Response("reminder", 401, "Unauthorized"), apiKey)
       /\ UNCHANGED reminderVars
     ELSE IF MissingFields(data) THEN
       /\ resp' = Answer(Response("reminder", 400, "Missing required fields"),
                         apiKey)
       /\ UNCHANGED reminderVars
     ELSE
       /\ reminders' = reminders \cup
            {[id |-> nextReminderId,
              guild_id |-> data.guild_id, channel_id |-> data.channel_id,
              user_id |-> data.user_id, reminder_time |-> data.reminder_time,
              message |-> data.message, created_at |-> ToISOString(clock)]}
       /\ nextReminderId' = nextReminderId + 1
       /\ resp' = Answer(Response("reminder", 201, "none"), apiKey)

\* DELETE FROM reminders WHERE id = ?
DeleteReminder(apiKey, reminderId) ==
  /\ UNCHANGED <<store, nextRowId, clock, cb, sweeps, issued, nextGrant,
                 nextReminderId>>
  /\ IF Unauthorized(apiKey) THEN
       /\ resp' = Answer(Response("unremind", 401, "Unauthorized"), apiKey)
       /\ UNCHANGED reminders
     ELSE
       /\ reminders' = {r \in reminders : r.id # reminderId}
       /\ resp' = Answer(Response("unremind", 200, "none"), apiKey)

\* (variant: WHERE created_at < ?)
KeptAfterCleanupStrict(rows, cutoffISO) ==
  {r \in rows : ~TextLess(r.created_at, cutoffISO)}

\* the rows left by DELETE FROM reminders WHERE created_at <= ?
KeptAfterCleanup(rows, cutoffISO) ==
  {r \in rows : ~TextLeq(r.created_at, cutoffISO)}

CleanupOldReminders(apiKey) ==
  /\ UNCHANGED <<store, nextRowId, clock, cb, sweeps, issued, nextGrant,
                 nextReminderId>>
  /\ IF Unauthorized(apiKey) THEN
       /\ resp' = Answer(Response("cleanup", 401, "Unauthorized"), apiKey)
       /\ UNCHANGED reminders
     ELSE
       LET cutoffISO == ToISOString(clock - CleanupAge)
           kept == KeptAfterCleanup(reminders, cutoffISO)
       IN  /\ reminders' = kept
           \* result.meta.changes
           /\ resp' = Answer([Response("cleanup", 200, "none") EXCEPT
                               !.deleted = Cardinality(reminders \ kept)],
                             apiKey)

\* a long time passes with no request in flight: the age at which a
\* reminder is cleaned up, or one tick less
Sleep ==
  /\ clock <= StartClock + MaxTicks
  /\ \A p \in CB : cb[p].pc = "idle"
  /\ \A s \in SW : sweeps[s].pc = "idle"
  /\ \E d \in {CleanupAge - 1, CleanupAge} : clock' = clock + d
  /\ resp' = NoResponse
  /\ UNCHANGED <<store, nextRowId, cb, sweeps, issued, nextGrant, reminderVars>>

\* SpecReminders: the reminder routes, each with the configured key, a
\* wrong key and no key, over a clock that passes the cleanup age
NextReminders ==
  \/ Tick
  \/ Sleep
  \/ \E apiKey \in ApiKeys, data \in ReminderBodies : CreateReminder(apiKey, data)
  \/ \E apiKey \in ApiKeys, id \in 1..MaxReminders : DeleteReminder(apiKey, id)
  \/ \E apiKey \in ApiKeys : CleanupOldReminders(apiKey)

SpecReminders == Init /\ [][NextReminders]_vars

\* Spec: every handler of the token lifecycle; a callback and a sweep in
\* flight together, one game account in one corporation, fetches that
\* succeed or throw, complete token bodies, callback and refresh requests
\* that carry the configured key, callback requests with a code and a
\* decodable state
MainEnv ==
  [callbacks |-> {1}, sweeps |-> {1},
   chars |-> {"char1"}, corps |-> {"corpB"}, outcomes |-> {"throw", "ok"},
   bodies |-> FullBodies,
   grants |-> MaxGrants,
   keys |-> {API_KEY}, codes |-> {"code"}, states |-> ForgedStates]

Next ==
  \/ Tick
  \/ CallbackSteps(MainEnv)
  \/ SweepSteps(MainEnv)
  \/ DeleteSteps(MainEnv)

Spec == Init /\ [][Next]_vars

\* SpecSweeps: as Spec, with two sweeps in flight together
SweepsEnv == [MainEnv EXCEPT !.sweeps = {1, 2}]

NextSweeps ==
  \/ Tick
  \/ CallbackSteps(SweepsEnv)
  \/ SweepSteps(SweepsEnv)
  \/ DeleteSteps(SweepsEnv)

SpecSweeps == Init /\ [][NextSweeps]_vars

\* SpecCallbacks: callbacks one after the other and deletes, no sweep;
\* every state parameter, every outcome of a fetch, every token body
CallbacksEnv ==
  [callbacks |-> {1}, sweeps |-> {},
   chars |-> {"char1"}, corps |-> Corps, outcomes |-> FetchOutcomes,
   bodies |-> TokenBodies,
   grants |-> MaxGrants,
   keys |-> ApiKeys, codes |-> {Null, "code"}, states |-> CallbackStates]

NextCallbacks ==
  \/ Tick
  \/ CallbackSteps(CallbacksEnv)
  \/ DeleteSteps(CallbacksEnv)

SpecCallbacks == Init /\ [][NextCallbacks]_vars

\* SpecAuth: the authorization flow, createAuthURL and one callback at a
\* time whose state parameter is an issued token or a forged one
AuthEnv == [MainEnv EXCEPT !.sweeps = {}, !.keys = ApiKeys]

LoginSteps ==
  \E apiKey \in ApiKeys, d \in DiscordIds \cup {NullText}, u \in LoginUsernames :
    CreateAuthURL(apiKey, d, u)

NextAuth ==
  \/ Tick
  \/ LoginSteps
  \/ CallbackSteps(AuthEnv)
  \/ DeleteSteps(AuthEnv)

SpecAuth == Init /\ [][NextAuth]_vars

\* SpecLink: one identity linked, re-linked and deleted, no sweep; two game
\* accounts, a corporation with and one without an alliance, fetches that
\* succeed or throw, every token body
(***************************************************************************)
(* getAllAuthUsers                                                         *)
(***************************************************************************)
\* the columns of the SELECT
UserColumns(r) ==
  [discord_id |-> r.discord_id,
   discord_username |-> r.discord_username,
   eve_character_name |-> r.eve_character_name,
   eve_corporation_ticker |-> r.eve_corporation_ticker,
   eve_alliance_ticker |-> r.eve_alliance_ticker,
   token_expires_at |-> r.token_expires_at,
   last_updated |-> r.last_updated]

\* ORDER BY discord_username: ascending labels, rows of equal labels in any
\* order
OrderedByUsername(rows) ==
  {q \in Orderings(rows) :
     \A i, j \in DOMAIN q :
       i < j => TextLeq(q[i].discord_username, q[j].discord_username)}

GetAllAuthUsers(apiKey) ==
  /\ UNCHANGED <<store, nextRowId, clock, cb, sweeps, issued, nextGrant,
                 reminderVars>>
  /\ IF Unauthorized(apiKey) THEN
       resp' = Answer(Response("users", 401, "Unauthorized"), apiKey)
     ELSE
       \E q \in OrderedByUsername(store) :
         resp' = Answer([Response("users", 200, "none") EXCEPT
                           !.rows = [i \in DOMAIN q |-> UserColumns(q[i])]],
                        apiKey)

\* SpecReport: the handlers of Spec and the enumeration of the records
NextReport ==
  \/ Tick
  \/ CallbackSteps(MainEnv)
  \/ SweepSteps(MainEnv)
  \/ DeleteSteps(MainEnv)
  \/ \E apiKey \in ApiKeys : GetAllAuthUsers(apiKey)

SpecReport == Init /\ [][NextReport]_vars

\* SpecIsolation: the handlers of Spec for two identities and the lookup of
\* one record, all within one tick of the clock
NextIsolation ==
  \/ CallbackSteps(MainEnv)
  \/ SweepSteps(MainEnv)
  \/ DeleteSteps(MainEnv)
  \/ \E d \in DiscordIds : GetAuthUser(API_KEY, d)

SpecIsolation == Init /\ [][NextIsolation]_vars

OneIdentityStates == {EncodeState(<<49>>, u, StartClock).val : u \in Usernames}

LinkEnv ==
  [callbacks |-> {1}, sweeps |-> {},
   chars |-> Chars, corps |-> Corps, outcomes |-> {"throw", "ok"},
   bodies |-> TokenBodies,
   grants |-> MaxGrants,
   keys |-> ApiKeys, codes |-> {"code"}, states |-> OneIdentityStates]

NextLink ==
  \/ Tick
  \/ CallbackSteps(LinkEnv)
  \/ DeleteSteps(LinkEnv)

SpecLink == Init /\ [][NextLink]_vars

\* SpecRace: two callbacks for one identity in flight together, no sweep
\* and no delete; two game accounts, fetches that succeed or throw
RaceEnv ==
  [callbacks |-> {1, 2}, sweeps |-> {},
   chars |-> Chars, corps |-> {"corpB"}, outcomes |-> {"throw", "ok"},
   bodies |-> FullBodies,
   grants |-> MaxGrants,
   keys |-> ApiKeys, codes |-> {"code"}, states |-> OneIdentityStates]

NextRace ==
  \/ Tick
  \/ CallbackSteps(RaceEnv)

SpecRace == Init /\ [][NextRace]_vars

\* SpecRelink: one identity linked, re-linked to another game account,
\* refreshed and deleted; a callback and a sweep in flight together,
\* fetches that succeed or throw, every token body
RelinkEnv ==
  [callbacks |-> {1}, sweeps |-> {1},
   chars |-> Chars, corps |-> {"corpB"}, outcomes |-> {"throw", "ok"},
   bodies |-> TokenBodies,
   grants |-> MaxGrants,
   keys |-> ApiKeys, codes |-> {"code"}, states |-> OneIdentityStates]

NextRelink ==
  \/ Tick
  \/ CallbackSteps(RelinkEnv)
  \/ SweepSteps(RelinkEnv)
  \/ DeleteSteps(RelinkEnv)

SpecRelink == Init /\ [][NextRelink]_vars

\* SpecInterleave: a sweep and callbacks for one identity that links one
\* game account and then another; the provider grants one token pair more
\* than in the other specifications (first link, refresh, second link)
InterleaveEnv ==
  [callbacks |-> {1}, sweeps |-> {1},
   chars |-> Chars, corps |-> {"corpB"}, outcomes |-> {"throw", "ok"},
   bodies |-> FullBodies,
   grants |-> MaxGrants + 1,
   keys |-> {API_KEY}, codes |-> {"code"}, states |-> OneIdentityStates]

NextInterleave ==
  \/ Tick
  \/ CallbackSteps(InterleaveEnv)
  \/ SweepSteps(InterleaveEnv)

SpecInterleave == Init /\ [][NextInterleave]_vars

\* SpecRoutes: every route of the token lifecycle and the preflight, each
\* with the configured key, a wrong key and no key; one identity, one game
\* account, all requests within one tick of the clock
RoutesEnv ==
  [callbacks |-> {1}, sweeps |-> {1},
   chars |-> {"char1"}, corps |-> {"corpB"}, outcomes |-> {"throw", "ok"},
   bodies |-> FullBodies,
   grants |-> MaxGrants,
   keys |-> ApiKeys, codes |-> {Null, "code"}, states |-> OneIdentityStates]

NextRoutes ==
  \/ Preflight
  \/ \E apiKey \in ApiKeys, d \in {<<49>>, NullText}, u \in Usernames :
       CreateAuthURL(apiKey, d, u)
  \/ CallbackSteps(RoutesEnv)
  \/ \E apiKey \in ApiKeys, d \in DiscordIds : GetAuthUser(apiKey, d)
  \/ \E apiKey \in ApiKeys : GetAllAuthUsers(apiKey)
  \/ SweepSteps(RoutesEnv)
  \/ DeleteSteps(RoutesEnv)

SpecRoutes == Init /\ [][NextRoutes]_vars

\* SpecNoAnswer: as SpecRoutes without login, preflight and reads, with
\* time passing and with calls to the provider and to ESI that never answer
NoAnswerEnv == [RoutesEnv EXCEPT !.codes = {"code"}]

NextNoAnswer ==
  \/ Tick
  \/ CallbackSteps(NoAnswerEnv)
  \/ SweepSteps(NoAnswerEnv)
  \/ DeleteSteps(NoAnswerEnv)
  \/ \E p \in CB : CallbackHang(p, NoAnswerEnv)
  \/ \E s \in SW : SweepHang(s)

SpecNoAnswer == Init /\ [][NextNoAnswer]_vars

(***************************************************************************)
(* Properties.                                                             *)
(***************************************************************************)
\* the instant an ISO text names
FromISOString(t) == (t[1] * 10) + t[2]

Credentials(r) == <<r.access_token, r.refresh_token, r.token_expires_at>>

Ids(seq) == {seq[i].discord_id : i \in 1..Len(seq)}

Count(seq, d) == Cardinality({i \in 1..Len(seq) : seq[i].discord_id = d})

\* sweep s takes the step
SweepStep(s) == sweeps'[s] # sweeps[s]

\* sweep s sends its response in the step
SweepFinishes(s) == sweeps[s].pc # "idle" /\ sweeps'[s].pc = "idle"

\* the failed list of sweep s after the step
FailedAfter(s) == IF SweepFinishes(s) THEN resp'.failed ELSE sweeps'[s].failed

\* C1: in every reachable state the table holds at most one row per
\* discord_id: two rows with the same discord_id are the same row.
C1_OneRecordPerIdentity ==
  \A r1, r2 \in store : r1.discord_id = r2.discord_id => r1 = r2

\* a second successful callback for the same identity has just replaced
\* the row of the first: the row of the second insert is the only one, and
\* it carries the created_at of the first
C1_Witness ==
  /\ resp.handler = "callback" /\ resp.status = 200
  /\ Cardinality(store) = 1
  /\ \E r \in store :
       /\ r.id = 2 /\ r.access_token = 2
       /\ r.created_at = ToISOString(StartClock)
       /\ r.last_updated = ToISOString(StartClock + 1)

\* C2: no step changes the created_at of an identity whose row exists
\* before and after the step (re-authorization, refresh that succeeds or
\* fails); only a delete ends the row and with it its created_at.
C2_CreatedAtKept ==
  [][\A r \in store : \A r2 \in store' :
       r.discord_id = r2.discord_id => r2.created_at = r.created_at]_vars

\* a sweep one tick after the link has just refreshed the row: new tokens
\* and last_updated, the created_at of the link
C2_Witness ==
  /\ resp.handler = "refresh" /\ Len(resp.refreshed) = 1
  /\ \E r \in store :
       /\ r.discord_id = resp.refreshed[1].discord_id
       /\ r.id = 1 /\ r.access_token = 2
       /\ r.created_at = ToISOString(StartClock)
       /\ r.last_updated = ToISOString(StartClock + 1)

\* C3: a step in which a sweep puts its current record into the failed list
\* leaves access_token, refresh_token and token_expires_at of that record's
\* row as they were, and the row in place.
C3_FailedRefreshWritesNothing ==
  [][\A s \in SW :
       (sweeps[s].pc # "idle" /\ Len(FailedAfter(s)) = Len(sweeps[s].failed) + 1)
       => \A r \in store :
            r.discord_id = User(s).discord_id
            => \E r2 \in store' :
                 r2.discord_id = r.discord_id /\ Credentials(r2) = Credentials(r)]_vars

\* the UPDATE of a refresh threw: the record is reported failed after its
\* token exchange succeeded, and its row still holds the tokens of the link
C3_Witness ==
  /\ resp.handler = "refresh" /\ Len(resp.failed) = 1
  /\ resp.failed[1].error = "error"
  /\ nextGrant = 3
  /\ \E r \in store :
       r.discord_id = resp.failed[1].discord_id /\ r.access_token = 1 /\ r.refresh_token = 1

\* C4: while a sweep runs, the records before the current one are each in
\* exactly one of refreshed and failed and the others in neither; the
\* response of the sweep holds each selected record exactly once, in
\* refreshed or in failed.
C4_EachSelectedRecordOnce ==
  [][\A s \in SW :
       /\ sweeps[s].pc # "idle" =>
            \A i \in 1..Len(sweeps[s].results) :
              Count(sweeps[s].refreshed, sweeps[s].results[i].discord_id)
              + Count(sweeps[s].failed, sweeps[s].results[i].discord_id)
              = IF i < sweeps[s].idx THEN 1 ELSE 0
       /\ SweepFinishes(s) =>
            /\ Len(resp'.refreshed) + Len(resp'.failed) = Len(sweeps[s].results)
            /\ \A i \in 1..Len(sweeps[s].results) :
                 Count(resp'.refreshed, sweeps[s].results[i].discord_id)
                 + Count(resp'.failed, sweeps[s].results[i].discord_id) = 1]_vars

\* a sweep over two records has answered: the first record failed and the
\* second was attempted all the same
C4_Witness ==
  /\ resp.handler = "refresh" /\ resp.status = 200
  /\ Len(resp.failed) = 2
  /\ resp.failed[1].discord_id # resp.failed[2].discord_id

\* C5 (as claimed): at most one sweep is in flight.
C5_SweepsNeverOverlap ==
  Cardinality({s \in SW : sweeps[s].pc # "idle"}) <= 1

\* C6 (as claimed): a sweep that starts right after the response of a
\* sweep reported the refresh-token exchange of a record rejected, with no
\* callback in between, does not select that record for another exchange.
C6_NoRetryAfterRejection ==
  [][\A s \in SW :
       (resp.handler = "refresh" /\ sweeps[s].pc = "idle" /\ sweeps'[s].pc = "exchange")
       => \A i \in 1..Len(resp.failed) :
            resp.failed[i].error = "Failed to refresh token"
            => resp.failed[i].discord_id \notin Ids(sweeps'[s].results)]_vars

\* C7: the step in which a sweep starts selects exactly the rows whose
\* token_expires_at is at most one hour after the clock, each once, the
\* boundary included; a start that answers at once found no such row; and
\* the UPDATE of a sweep changes no row of an identity it did not select.
C7_SelectsExactlyWithinHorizon ==
  [][LET within == {r.discord_id : r \in {x \in store :
                      FromISOString(x.token_expires_at) <= clock + Horizon}}
     IN  \A s \in SW :
           /\ (sweeps[s].pc = "idle" /\ sweeps'[s].pc = "exchange")
              => /\ Ids(sweeps'[s].results) = within
                 /\ Len(sweeps'[s].results) = Cardinality(within)
           /\ (sweeps' = sweeps /\ resp'.handler = "refresh" /\ resp'.status = 200)
              => within = {}
           /\ (sweeps[s].pc = "update" /\ SweepStep(s))
              => \A r \in store :
                   r.discord_id \notin Ids(sweeps[s].results) => r \in store']_vars

\* a sweep has just started and selected the row that expires exactly one
\* hour after the clock, while the row that expires later is left out
C7_Witness ==
  /\ sweeps[1].pc = "exchange" /\ sweeps[1].idx = 1
  /\ Len(sweeps[1].results) = 1
  /\ sweeps[1].now = ToISOString(clock)
  /\ \E r \in store :
       /\ r.discord_id = sweeps[1].results[1].discord_id
       /\ FromISOString(r.token_expires_at) = clock + Horizon
  /\ \E r \in store : FromISOString(r.token_expires_at) > clock + Horizon

\* C8 (as claimed): a callback whose token exchange succeeded and whose
\* affiliation fetch failed answers 200 and the row of its identity is
\* stored.
C8_AffiliationFailureStillPersists ==
  (resp.handler = "callback" /\ resp.exchanged /\ resp.error = "affiliation")
  => /\ resp.status = 200
     /\ \E r \in store : r.discord_id = DecodeState(resp.state).val.discord_id

\* C9: an authorized callback request without code, without state or with
\* a state that cannot be decoded is answered 400 or 500, sends no token
\* exchange and leaves the table and the grants as they were.
C9_BadRequestHasNoEffect ==
  [][(/\ resp'.handler = "callback" /\ resp'.status # 401
      /\ (resp'.code = Null \/ resp'.state = NullText
          \/ resp'.state \in UndecodableStates))
     => /\ resp'.status \in {400, 500}
        /\ ~resp'.exchanged
        /\ store' = store
        /\ nextGrant' = nextGrant
        /\ cb' = cb]_vars

\* a callback whose state is not base64 text of JSON has just been
\* answered 500 while a row is stored
C9_Witness ==
  /\ resp.handler = "callback" /\ resp.status = 500
  /\ resp.code = "code" /\ resp.state \in UndecodableStates
  /\ store # {}

\* C10 (as claimed): every stored row belongs to an identity for which
\* createAuthURL issued a state token.
C10_OnlyIssuedStatesLink ==
  \A r \in store :
    \E t \in issued : DecodeState(t).ok /\ DecodeState(t).val.discord_id = r.discord_id

\* C11: a callback whose authorization-code exchange fails is answered
\* 500 in the step in which the exchange fails, and that step leaves the
\* table as it was (no row created, the row already stored untouched); a
\* callback goes on to its INSERT OR REPLACE only with an access token.
C11_ExchangeFailureWritesNothing ==
  [][/\ (resp'.handler = "callback" /\ resp'.exchanged /\ resp'.error = "exchange")
        => /\ resp'.status = 500
           /\ store' = store
           /\ nextRowId' = nextRowId
     /\ \A p \in CB :
          (cb[p].pc = "idle" /\ cb'[p].pc = "store")
          => cb'[p].v.access_token # NoToken]_vars

\* the exchange of a callback failed for an identity whose row is stored:
\* the answer is 500 and the row is still there
C11_Witness ==
  /\ resp.handler = "callback" /\ resp.status = 500 /\ resp.error = "exchange"
  /\ resp.exchanged
  /\ \E r \in store :
       /\ r.discord_id = DecodeState(resp.state).val.discord_id
       /\ r.access_token = 1

\* a callback has just sent its 200 response
CallbackSucceeds(p) ==
  cb[p].pc = "store" /\ cb'[p].pc = "idle" /\ resp'.status = 200

\* C12: the step in which a callback succeeds leaves exactly one row for the
\* identity decoded from its state; the row holds the label of the state,
\* a game account with its name, a corporation with its name and ticker,
\* the alliance of that corporation with name and ticker, or no alliance
\* exactly when the corporation has none, the tokens of the callback's
\* grant, an expiry one declared lifetime after the callback's time, and
\* the created_at of the row it replaces if there was one; every field but
\* id and created_at is the callback's value; the other rows stay.
C12_CallbackStoresItsValues ==
  [][\A p \in CB :
       CallbackSucceeds(p) =>
         LET d == DecodeState(resp'.state).val
             v == cb[p].v
             old == RowOf(store, d.discord_id)
         IN  /\ Cardinality(RowOf(store', d.discord_id)) = 1
             /\ \A r \in RowOf(store', d.discord_id) :
                  /\ r.discord_username = d.discord_username
                  /\ r.eve_character_id \in Chars
                  /\ r.eve_character_name = CharName(r.eve_character_id)
                  /\ r.eve_corporation_id \in Corps
                  /\ r.eve_corporation_name = CorpName(r.eve_corporation_id)
                  /\ r.eve_corporation_ticker = CorpTicker(r.eve_corporation_id)
                  /\ r.eve_alliance_id = AllianceOf(r.eve_corporation_id)
                  /\ (r.eve_alliance_name = Null) = (AllianceOf(r.eve_corporation_id) = Null)
                  /\ (r.eve_alliance_ticker = Null) = (AllianceOf(r.eve_corporation_id) = Null)
                  /\ r.access_token \in 1..(nextGrant - 1)
                  /\ r.refresh_token = r.access_token
                  /\ r.last_updated = v.last_updated
                  /\ (FromISOString(r.token_expires_at) - FromISOString(r.last_updated))
                       \in ExpiresIn
                  /\ r.created_at = IF old = {} THEN v.created_at
                                    ELSE (CHOOSE o \in old : TRUE).created_at
                  /\ [r EXCEPT !.id = 0, !.created_at = v.created_at] = v
             /\ \A r \in store : r.discord_id # d.discord_id => r \in store']_vars

\* a second callback has just re-linked the identity to the other game
\* account, in a corporation without alliance, one tick after the first
C12_Witness ==
  /\ resp.handler = "callback" /\ resp.status = 200
  /\ \E r \in store :
       /\ r.discord_id = DecodeState(resp.state).val.discord_id
       /\ r.id = 2 /\ r.access_token = 2
       /\ r.eve_character_id = "char2"
       /\ r.eve_corporation_id = "corpA" /\ r.eve_alliance_id = Null
       /\ r.created_at = ToISOString(StartClock)
       /\ r.last_updated = ToISOString(StartClock + 1)

\* C13: whenever a callback's INSERT OR REPLACE succeeds, also while
\* another callback for the same identity is in flight, the row of the
\* identity is from then on that callback's record as a whole: every field
\* but id and created_at is the value the callback bound, and created_at is
\* that of the row it replaces, or the callback's own when there was none
\* (so it stays that of the first link as long as the row is not deleted).
C13_LastUpsertWins ==
  [][\A p \in CB :
       CallbackSucceeds(p) =>
         LET v == cb[p].v
             old == RowOf(store, v.discord_id)
         IN  RowOf(store', v.discord_id) =
               {[v EXCEPT !.id = nextRowId,
                          !.created_at = IF old = {} THEN v.created_at
                                         ELSE (CHOOSE o \in old : TRUE).created_at]}]_vars

\* two callbacks for the identity ran together and their upserts executed
\* in the opposite order of their exchanges: the row is the second insert,
\* it holds the game account and the tokens of the first exchange and the
\* created_at of the first insert
C13_Witness ==
  /\ \A p \in CB : cb[p].pc = "idle"
  /\ resp.handler = "callback" /\ resp.status = 200
  /\ nextGrant = 3
  /\ \E r \in store :
       /\ r.id = 2 /\ r.access_token = 1
       /\ r.eve_character_id = "char1"
       /\ r.last_updated = ToISOString(StartClock)
       /\ r.created_at = ToISOString(StartClock + 1)

\* the columns that say who the record is about
Identity(r) == <<r.discord_username, r.eve_character_id, r.eve_character_name>>

\* C14: a step of a sweep, whether it refreshes the record or reports it
\* failed, leaves eve_character_id, discord_username and
\* eve_character_name of every row as they were; a step that changes one of
\* them in the row of an identity is the successful INSERT OR REPLACE of a
\* callback for that identity.
C14_OnlyCallbackChangesIdentity ==
  [][/\ \A s \in SW :
          SweepStep(s) =>
            \A r \in store : \A r2 \in store' :
              r.discord_id = r2.discord_id => Identity(r2) = Identity(r)
     /\ \A r \in store : \A r2 \in store' :
          (r.discord_id = r2.discord_id /\ Identity(r2) # Identity(r))
          => \E p \in CB : CallbackSucceeds(p) /\ cb[p].v.discord_id = r.discord_id]_vars

\* a sweep has just refreshed the record of an identity linked to the
\* second game account: new tokens, the game account still the second
C14_Witness ==
  /\ resp.handler = "refresh" /\ Len(resp.refreshed) = 1 /\ Len(resp.failed) = 0
  /\ \E r \in store :
       /\ r.discord_id = resp.refreshed[1].discord_id
       /\ r.access_token = 2
       /\ r.eve_character_id = "char2"
       /\ r.eve_character_name = CharName("char2")

C16_RedirectIsServed ==
  (/\ resp.handler = "callback" /\ ~resp.keyMatches
   /\ resp.code = "code" /\ resp.state \in issued)
  => resp.status # 401

\* the entry a step of sweep s has just put into the failed list
LastFailed(s) == FailedAfter(s)[Len(FailedAfter(s))]

\* C17 (as claimed): when a sweep is done with a record whose refresh-token
\* exchange succeeded (the failure it reports is one of the affiliation
\* fetches, which come after the exchange), the record's token_expires_at
\* is the time of that exchange plus a lifetime the provider declares.
C17_ExpiryOfLastExchange ==
  [][\A s \in SW :
       (/\ sweeps[s].pc = "exchange"
        /\ Len(FailedAfter(s)) = Len(sweeps[s].failed) + 1
        /\ LastFailed(s).error = "affiliation")
       => \A r \in RowOf(store', User(s).discord_id) :
            \E lifetime \in ExpiresIn \cup {Horizon} :
              r.token_expires_at = ToISOString(clock + lifetime)]_vars

\* C18: every stored row holds an access token and a refresh token, also
\* after a callback or a refresh whose token body has an access token and
\* no refresh token.
C18_TokensNeverNull ==
  \A r \in store : r.access_token # NoToken /\ r.refresh_token # NoToken

\* a sweep has just reported a record failed whose exchange returned a body
\* that the UPDATE cannot bind, and the row still holds the tokens of the
\* link
C18_Witness ==
  /\ resp.handler = "refresh" /\ Len(resp.failed) = 1
  /\ resp.failed[1].error = "bind"
  /\ \E r \in store :
       /\ r.discord_id = resp.failed[1].discord_id
       /\ r.access_token = 1 /\ r.refresh_token = 1

\* C19 (as claimed): no callback and no sweep is left waiting for a call
\* that never answers; the call times out and the handler goes on.
C19_NoCallWaitsForever ==
  /\ \A p \in CB : cb[p].pc # "hung"
  /\ \A s \in SW : sweeps[s].pc # "hung"

\* the identities that have a row
Linked(st) == {r.discord_id : r \in st}

\* C20: no step of a sweep changes the set of identities that have a row:
\* reporting a record failed, after a rejected exchange too, deletes no
\* row, and the UPDATE for a record whose row was deleted while the sweep
\* was in flight creates none.
C20_SweepKeepsIdentities ==
  [][\A s \in SW : SweepStep(s) => Linked(store') = Linked(store)]_vars

\* a sweep has just reported a record refreshed whose row deleteAuthUser
\* removed while the sweep was in flight, and the identity has no row
C20_Witness ==
  /\ resp.handler = "refresh" /\ Len(resp.refreshed) = 1
  /\ resp.refreshed[1].discord_id \notin Linked(store)

Statuses == {"valid", "near-expiry", "needs-reauth"}

\* C21 (as claimed): the answer of getAllAuthUsers holds every stored record
\* exactly once, and no other, and every entry carries a status that is one
\* of valid, near-expiry and needs-reauth.
C21_EnumeratesWithStatus ==
  (resp.handler = "users" /\ resp.status = 200)
  => /\ Len(resp.rows) = Cardinality(store)
     /\ \A r \in store : Count(resp.rows, r.discord_id) = 1
     /\ \A i \in DOMAIN resp.rows :
          /\ "status" \in DOMAIN resp.rows[i]
          /\ resp.rows[i].status \in Statuses

\* C22 (as claimed): a createAuthURL request with the configured key, an
\* identity and a label is answered 200 with an authorization URL, and
\* decoding the state token of that URL the way handleAuthCallback does
\* gives the identity and the label of the request.
C22_StateRoundTrips ==
  [][\A d \in DiscordIds, u \in LoginUsernames :
       CreateAuthURL(API_KEY, d, u)
       => /\ resp'.status = 200
          /\ DecodeState(resp'.state)
               = Ok([discord_id |-> d, discord_username |-> u])]_vars

AffiliationOf(r) ==
  <<r.eve_corporation_id, r.eve_corporation_name, r.eve_corporation_ticker,
    r.eve_alliance_id, r.eve_alliance_name, r.eve_alliance_ticker>>

\* C23 (as claimed): when a sweep reports a record failed because an
\* affiliation fetch failed after the refresh-token exchange succeeded, the
\* step leaves the record with the access token and the refresh token of
\* that exchange and the affiliation it had before.
C23_TokensKeptWhenAffiliationFails ==
  [][\A s \in SW :
       (/\ sweeps[s].pc = "exchange"
        /\ Len(FailedAfter(s)) = Len(sweeps[s].failed) + 1
        /\ LastFailed(s).error = "affiliation")
       => \A r \in RowOf(store, User(s).discord_id) :
            \E r2 \in RowOf(store', User(s).discord_id) :
              /\ r2.access_token = nextGrant
              /\ r2.refresh_token = nextGrant
              /\ AffiliationOf(r2) = AffiliationOf(r)]_vars

\* the rows of the identities other than A are the same before and after
\* the step
OthersUntouched(A) ==
  \A B \in DiscordIds \ {A} : RowOf(store', B) = RowOf(store, B)

C25_SweepWritesItsOwnAccount ==
  [][\A s \in SW :
       (sweeps[s].pc = "update" /\ SweepStep(s))
       => \A r \in RowOf(store, User(s).discord_id) :
            \/ r.eve_character_id = User(s).eve_character_id
            \/ r \in store']_vars

\* the age of a reminder at the time of the clock, in ticks
AgeOf(r) == clock - FromISOString(r.created_at)

\* C26: the step in which cleanupOldReminders answers leaves exactly the
\* reminders created less than 45 days before the call, each as it was, and
\* the count it reports is the number of reminders that are gone.
C26_CleanupDeletesOldReminders ==
  [][(resp'.handler = "cleanup" /\ resp'.status = 200)
     => /\ reminders' = {r \in reminders : AgeOf(r) < CleanupAge}
        /\ resp'.deleted = Cardinality(reminders) - Cardinality(reminders')]_vars

\* a cleanup has just deleted a reminder that was exactly 45 days old and
\* kept one that was a tick younger
C26_Witness ==
  /\ resp.handler = "cleanup" /\ resp.deleted = 1
  /\ clock = StartClock + CleanupAge
  /\ \E r \in reminders : AgeOf(r) = CleanupAge - 1

====
